---------------------------- MODULE Spec2Model ----------------------------
(***************************************************************************)
(* A model of the CARL security core:                                      *)
(*   - SimpleZKP            (src/carl_zkp_prototype.py)                    *)
(*   - ZeroKnowledgeProof, GDPRCompliance, AES256Encryption,               *)
(*     BiometricProtection, CarlSecurityManager (src/carl_security_zkp.py) *)
(*   - CARLCognitiveEngine  (src/carl_ai_core.py)                          *)
(*                                                                         *)
(* Byte strings are sequences of fixed-width blocks, concatenated with \o. *)
(* SHA-256 is an injective symbolic function of its input; a hex digest is *)
(* a pair (its first 16 characters, its remaining 48 characters), so that  *)
(* a prefix comparison and a full comparison are different tests.          *)
(* The clock `now` counts in units of five minutes (300 seconds).          *)
(***************************************************************************)
EXTENDS Integers, Sequences, FiniteSets

VARIABLES
    now,              \* datetime.now(), in clock units
    impl,             \* which protocol object a run exercises
    active_sessions,  \* SimpleZKP.active_sessions
    proofs_cache,     \* ZeroKnowledgeProof.proofs_cache
    accepted,         \* history: verify calls that returned True, per live session id
    ret,              \* the last call: operation, arguments, result
    consents,         \* GDPRCompliance.consents
    access_logs,      \* GDPRCompliance.access_logs
    conc,             \* the threads of the concurrent specification
    user_registry     \* CARLCognitiveEngine.user_registry

sessionVars == <<impl, active_sessions, proofs_cache, accepted>>
ledgerVars  == <<consents, access_logs>>
engineVars  == <<user_registry>>
vars == <<now, impl, active_sessions, proofs_cache, accepted, ret, consents, access_logs, conc, user_registry>>

---------------------------------------------------------------------------
(* Bounds of the model *)

MaxTime == 2
MaxAccepted == 2

(* Program constants, in clock units of five minutes *)
ZkpSessionTtl == 1
DefaultTtl == 1

---------------------------------------------------------------------------
(* Input sets *)

SessionIds == {"sid1", "sid2"}
UserIds == {"U1", "U2"}
\* secrets are hex digests of one fixed width
Secrets == {<<"K">>, <<"W">>}
\* secrets.token_hex(32)
Challenges == {<<"cA">>, <<"cB">>}
\* secrets.token_bytes(32)
FreshRandomness == {<<"r1">>}
\* what a caller may pass as randomness / salt: fresh bytes, or no bytes at all
RandomnessInputs == FreshRandomness \cup {<<>>}
TtlInputs == {0, DefaultTtl}

NoStore == [s \in {} |-> s]

---------------------------------------------------------------------------
(* hashlib.sha256(x).hexdigest(), str.encode(), hmac.compare_digest *)

Sha256Hex(bytes) == [pre16 |-> <<"sha256", bytes>>, rest |-> <<"sha256", bytes>>]
Prefix16(hex) == hex.pre16
StartsWith(hex, prefix) == hex.pre16 = prefix
Encode(str) == str
CompareDigest(a, b) == a = b

---------------------------------------------------------------------------
(* dict operations *)

DictPut(d, k, v) == [x \in DOMAIN d \cup {k} |-> IF x = k THEN v ELSE d[x]]
DictDel(d, k) == [x \in DOMAIN d \ {k} |-> d[x]]

---------------------------------------------------------------------------
(* Session expiry: datetime.now() > session["expires_at"] *)

IsExpired_never(session, t) == FALSE
IsExpired_reversed(session, t) == t < session.expires_at
IsExpired(session, t) == t > session.expires_at

---------------------------------------------------------------------------
(* SimpleZKP, prover side *)

CreateCommitmentP(secret, randomness) ==
    [commitment |-> Sha256Hex(Encode(secret) \o randomness), randomness |-> randomness]

GenerateProofP_nochallenge(secret, challenge, randomness) ==
    Sha256Hex(Encode(secret) \o randomness)
GenerateProofP(secret, challenge, randomness) ==
    Sha256Hex(Encode(secret) \o Encode(challenge) \o randomness)

(* SimpleZKP, verifier side *)

CreateChallengeP(store, t, session_id, challenge, user_id, commitment, ttl) ==
    [store |-> DictPut(store, session_id,
                  [user_id |-> user_id, commitment |-> commitment, challenge |-> challenge,
                   created_at |-> t, expires_at |-> t + ttl]),
     result |-> [session_id |-> session_id, commitment |-> commitment,
                 challenge |-> challenge, created_at |-> t, expires_at |-> t + ttl]]

ExpectedProofPrefix(secret, challenge) ==
    Prefix16(Sha256Hex(Encode(secret) \o Encode(challenge)))

IsValidP_ownprefix(session, proof, secret) ==
    StartsWith(proof, Prefix16(proof))
IsValidP(session, proof, secret) ==
    StartsWith(proof, ExpectedProofPrefix(secret, session.challenge))

ConsumeValid_keep(store, session_id) == store
ConsumeValid_clear(store, session_id) == NoStore
ConsumeValid(store, session_id) == DictDel(store, session_id)

VerifyProofP(store, t, session_id, proof, secret) ==
    IF session_id \notin DOMAIN store
    THEN [store |-> store, result |-> FALSE, why |-> "not_found"]
    ELSE IF IsExpired(store[session_id], t)
    THEN [store |-> DictDel(store, session_id), result |-> FALSE, why |-> "expired"]
    ELSE LET is_valid == IsValidP(store[session_id], proof, secret)
         IN  IF is_valid
             THEN [store |-> ConsumeValid(store, session_id), result |-> TRUE, why |-> "valid"]
             ELSE [store |-> store, result |-> FALSE, why |-> "invalid"]

CleanupExpiredSessions_inclusive(store, t) ==
    LET expired == {sid \in DOMAIN store : t >= store[sid].expires_at}
    IN  [sid \in DOMAIN store \ expired |-> store[sid]]
CleanupExpiredSessions(store, t) ==
    LET expired == {sid \in DOMAIN store : IsExpired(store[sid], t)}
    IN  [sid \in DOMAIN store \ expired |-> store[sid]]

GetActiveSessionsCount(store) == Cardinality(DOMAIN store)

---------------------------------------------------------------------------
(* ZeroKnowledgeProof *)

GenerateCommitment(secret, salt) ==
    [commitment |-> Sha256Hex(Encode(secret) \o salt), salt |-> salt]

VerifyCommitment_saltfirst(secret, salt, commitment) ==
    CompareDigest(Sha256Hex(salt \o Encode(secret)), commitment)
VerifyCommitment(secret, salt, commitment) ==
    CompareDigest(GenerateCommitment(secret, salt).commitment, commitment)

GenerateProof_nochallenge(secret, challenge, salt, t) ==
    [proof |-> Sha256Hex(Encode(secret) \o salt), challenge |-> challenge, timestamp |-> t]
GenerateProof(secret, challenge, salt, t) ==
    [proof |-> Sha256Hex(Encode(secret) \o Encode(challenge) \o salt),
     challenge |-> challenge, timestamp |-> t]

VerifyProof(commitment, challenge, proof, secret, salt, t) ==
    IF ~VerifyCommitment(secret, salt, commitment)
    THEN FALSE
    ELSE CompareDigest(GenerateProof(secret, challenge, salt, t).proof, proof)

CreateBiometricZkpSession(cache, t, session_id, salt, challenge, user_id, biometric_hash) ==
    LET commitment == GenerateCommitment(biometric_hash, salt).commitment
    IN  [store |-> DictPut(cache, session_id,
                      [user_id |-> user_id, commitment |-> commitment, salt |-> salt,
                       challenge |-> challenge, created_at |-> t,
                       expires_at |-> t + ZkpSessionTtl]),
         result |-> [session_id |-> session_id, commitment |-> commitment,
                     challenge |-> challenge, expires_in |-> ZkpSessionTtl]]

VerifyBiometricZkp(cache, t, session_id, proof, biometric_hash) ==
    IF session_id \notin DOMAIN cache
    THEN [store |-> cache, result |-> FALSE, why |-> "not_found"]
    ELSE IF IsExpired(cache[session_id], t)
    THEN [store |-> DictDel(cache, session_id), result |-> FALSE, why |-> "expired"]
    ELSE LET session == cache[session_id]
             is_valid == VerifyProof(session.commitment, session.challenge, proof,
                                     biometric_hash, session.salt, t)
         IN  IF is_valid
             THEN [store |-> ConsumeValid(cache, session_id), result |-> TRUE, why |-> "valid"]
             ELSE [store |-> cache, result |-> FALSE, why |-> "invalid"]

---------------------------------------------------------------------------
(* What callers pass as a proof and as a commitment *)

ProofInputs ==
    {GenerateProofP(s, c, r) : s \in Secrets, c \in Challenges, r \in RandomnessInputs}
    \cup {GenerateProof(s, c, r, 0).proof : s \in Secrets, c \in Challenges, r \in RandomnessInputs}
CommitmentInputs ==
    {CreateCommitmentP(s, r).commitment : s \in Secrets, r \in FreshRandomness}

---------------------------------------------------------------------------
(* The sequential specification of the two session stores *)

NoRet == [op |-> "none"]
Bump(n) == IF n < MaxAccepted THEN n + 1 ELSE n

InitCommon ==
    /\ now = 0
    /\ ret = NoRet
    /\ active_sessions = NoStore
    /\ proofs_cache = NoStore
    /\ accepted = [s \in SessionIds |-> 0]
    /\ consents = NoStore
    /\ access_logs = <<>>
    /\ user_registry = NoStore

InitSessions ==
    /\ InitCommon
    /\ conc = <<>>
    /\ impl \in {"SimpleZKP", "ZeroKnowledgeProof"}

Tick ==
    /\ now < MaxTime
    /\ now' = now + 1
    /\ ret' = [op |-> "tick"]
    /\ UNCHANGED <<sessionVars, ledgerVars, conc, engineVars>>

create_challenge ==
    /\ impl = "SimpleZKP"
    /\ \E session_id \in SessionIds, challenge \in Challenges, user_id \in UserIds,
          commitment \in CommitmentInputs, ttl \in TtlInputs :
          LET r == CreateChallengeP(active_sessions, now, session_id, challenge,
                                    user_id, commitment, ttl)
          IN  /\ active_sessions' = r.store
              /\ accepted' = [accepted EXCEPT ![session_id] = 0]
              /\ ret' = [op |-> "create_challenge", session_id |-> session_id,
                         result |-> r.result]
    /\ UNCHANGED <<now, impl, proofs_cache, ledgerVars, conc, engineVars>>

verify_proof ==
    /\ impl = "SimpleZKP"
    /\ \E session_id \in SessionIds, proof \in ProofInputs, secret \in Secrets :
          LET r == VerifyProofP(active_sessions, now, session_id, proof, secret)
          IN  /\ active_sessions' = r.store
              /\ accepted' = IF r.result
                             THEN [accepted EXCEPT ![session_id] = Bump(@)]
                             ELSE accepted
              /\ ret' = [op |-> "verify", session_id |-> session_id,
                         result |-> r.result, why |-> r.why]
    /\ UNCHANGED <<now, impl, proofs_cache, ledgerVars, conc, engineVars>>

cleanup_expired_sessions ==
    /\ impl = "SimpleZKP"
    /\ active_sessions' = CleanupExpiredSessions(active_sessions, now)
    /\ ret' = [op |-> "cleanup_expired_sessions",
               removed |-> Cardinality(DOMAIN active_sessions)
                              - Cardinality(DOMAIN CleanupExpiredSessions(active_sessions, now))]
    /\ UNCHANGED <<now, impl, proofs_cache, accepted, ledgerVars, conc, engineVars>>

create_biometric_zkp_session ==
    /\ impl = "ZeroKnowledgeProof"
    /\ \E session_id \in SessionIds, salt \in FreshRandomness, challenge \in Challenges,
          user_id \in UserIds, biometric_hash \in Secrets :
          LET r == CreateBiometricZkpSession(proofs_cache, now, session_id, salt, challenge,
                                             user_id, biometric_hash)
          IN  /\ proofs_cache' = r.store
              /\ accepted' = [accepted EXCEPT ![session_id] = 0]
              /\ ret' = [op |-> "create_biometric_zkp_session", session_id |-> session_id,
                         result |-> r.result]
    /\ UNCHANGED <<now, impl, active_sessions, ledgerVars, conc, engineVars>>

verify_biometric_zkp ==
    /\ impl = "ZeroKnowledgeProof"
    /\ \E session_id \in SessionIds, proof \in ProofInputs, biometric_hash \in Secrets :
          LET r == VerifyBiometricZkp(proofs_cache, now, session_id, proof, biometric_hash)
          IN  /\ proofs_cache' = r.store
              /\ accepted' = IF r.result
                             THEN [accepted EXCEPT ![session_id] = Bump(@)]
                             ELSE accepted
              /\ ret' = [op |-> "verify", session_id |-> session_id,
                         result |-> r.result, why |-> r.why]
    /\ UNCHANGED <<now, impl, active_sessions, ledgerVars, conc, engineVars>>

NextSessions ==
    \/ Tick
    \/ create_challenge
    \/ verify_proof
    \/ cleanup_expired_sessions
    \/ create_biometric_zkp_session
    \/ verify_biometric_zkp

SpecSessions == InitSessions /\ [][NextSessions]_vars

(* SimpleZKP with a clock that keeps advancing and a sweep that keeps being
   run.  The clock of the model stops at MaxTime, and sessions are opened only
   with an expiry time the clock can still pass. *)

InitSweeper ==
    /\ InitCommon
    /\ conc = <<>>
    /\ impl = "SimpleZKP"

create_challenge_before_horizon ==
    /\ create_challenge
    /\ \A sid \in DOMAIN active_sessions' : active_sessions'[sid].expires_at < MaxTime

NextSweeper ==
    \/ Tick
    \/ create_challenge_before_horizon
    \/ verify_proof
    \/ cleanup_expired_sessions

SpecSweeper ==
    /\ InitSweeper
    /\ [][NextSweeper]_vars
    /\ WF_vars(Tick)
    /\ WF_vars(cleanup_expired_sessions)

\* the session store of the protocol object a run exercises
Store == IF impl = "SimpleZKP" THEN active_sessions ELSE proofs_cache

---------------------------------------------------------------------------
(* base64.b64encode / b64decode, json.dumps / json.loads: a wrapper and its
   inverse, which fails on anything that is not wrapped *)

B64Encode(bytes) == <<"b64", bytes>>
IsB64(str) == Len(str) = 2 /\ str[1] = "b64"
B64Decode(str) == str[2]
JsonDumps(obj) == <<"json", obj>>
IsJson(bytes) == Len(bytes) = 2 /\ bytes[1] = "json"
JsonLoads(bytes) == bytes[2]

---------------------------------------------------------------------------
(* AES256Encryption: AES-256-GCM as an ideal authenticated cipher.  A
   ciphertext names the key, the nonce and the plaintext it was made from; a
   tag names the key, the nonce, the associated data and the ciphertext. *)

None == <<"None">>
\* secrets.token_bytes(32) drawn by AES256Encryption() of BiometricProtection
\* and of CarlSecurityManager
BioKey == <<"key-biometric">>
ManagerKey == <<"key-manager">>
\* secrets.token_bytes(12)
Ivs == {<<"iv1">>, <<"iv2">>}
TemplateAD == <<"CARL_BIOMETRIC_TEMPLATE">>

\* `if associated_data:` is false for None and for empty bytes
Truthy(x) == x # None /\ x # <<>>
Aad(associated_data) == IF Truthy(associated_data) THEN associated_data ELSE <<>>

GcmCiphertext(key, iv, plaintext) == <<"ct", key, iv, plaintext>>
GcmTag(key, iv, aad, ciphertext) == <<"tag", key, iv, aad, ciphertext>>

\* decryptor.update(ciphertext): the counter-mode keystream applied to any bytes
GcmPlaintext(key, iv, ciphertext) ==
    IF Len(ciphertext) = 4 /\ ciphertext[1] = "ct" /\ ciphertext[2] = key /\ ciphertext[3] = iv
    THEN ciphertext[4]
    ELSE <<"garbled", ciphertext>>

Encrypt_adnotreturned(key, iv, plaintext, associated_data) ==
    LET ciphertext == GcmCiphertext(key, iv, plaintext)
    IN  [ciphertext |-> B64Encode(ciphertext),
         iv |-> B64Encode(iv),
         tag |-> B64Encode(GcmTag(key, iv, Aad(associated_data), ciphertext)),
         associated_data |-> None]
Encrypt(key, iv, plaintext, associated_data) ==
    LET ciphertext == GcmCiphertext(key, iv, plaintext)
    IN  [ciphertext |-> B64Encode(ciphertext),
         iv |-> B64Encode(iv),
         tag |-> B64Encode(GcmTag(key, iv, Aad(associated_data), ciphertext)),
         associated_data |-> IF Truthy(associated_data)
                             THEN B64Encode(associated_data) ELSE None]

Decrypt_unauthenticated(key, encrypted_data) ==
    IF \/ ~IsB64(encrypted_data.ciphertext) \/ ~IsB64(encrypted_data.iv)
       \/ ~IsB64(encrypted_data.tag)
       \/ (Truthy(encrypted_data.associated_data) /\ ~IsB64(encrypted_data.associated_data))
    THEN [ok |-> FALSE, error |-> "binascii.Error"]
    ELSE [ok |-> TRUE,
          plaintext |-> GcmPlaintext(key, B64Decode(encrypted_data.iv),
                                     B64Decode(encrypted_data.ciphertext))]
Decrypt(key, encrypted_data) ==
    IF \/ ~IsB64(encrypted_data.ciphertext) \/ ~IsB64(encrypted_data.iv)
       \/ ~IsB64(encrypted_data.tag)
       \/ (Truthy(encrypted_data.associated_data) /\ ~IsB64(encrypted_data.associated_data))
    THEN [ok |-> FALSE, error |-> "binascii.Error"]
    ELSE LET ciphertext == B64Decode(encrypted_data.ciphertext)
             iv == B64Decode(encrypted_data.iv)
             tag == B64Decode(encrypted_data.tag)
             associated_data == IF Truthy(encrypted_data.associated_data)
                                THEN B64Decode(encrypted_data.associated_data) ELSE None
         IN  IF tag = GcmTag(key, iv, Aad(associated_data), ciphertext)
             THEN [ok |-> TRUE, plaintext |-> GcmPlaintext(key, iv, ciphertext)]
             ELSE [ok |-> FALSE, error |-> "InvalidTag"]

---------------------------------------------------------------------------
(* BiometricProtection *)

\* raw biometric captures
Samples == {<<"sample-A">>, <<"sample-B">>}

HashBiometric_saltonly(biometric_data, salt) ==
    [hash |-> Sha256Hex(salt), salt |-> salt]
HashBiometric(biometric_data, salt) ==
    [hash |-> Sha256Hex(salt \o biometric_data), salt |-> salt]

\* bytes.hex(): a reversible encoding, of the shape of a digest
Hex(bytes) == [pre16 |-> <<"hex", bytes>>, rest |-> <<"hex", bytes>>]

CreateTemplate_rawhash(biometric_data, salt, t) ==
    [hash |-> Hex(biometric_data), salt |-> B64Encode(salt), algorithm |-> "SHA256",
     created_at |-> t, version |-> "1.0"]
CreateTemplate(biometric_data, salt, t) ==
    LET h == HashBiometric(biometric_data, salt)
    IN  [hash |-> h.hash, salt |-> B64Encode(h.salt), algorithm |-> "SHA256",
         created_at |-> t, version |-> "1.0"]

VerifyBiometric(input_data, stored_template) ==
    LET salt == B64Decode(stored_template.salt)
    IN  CompareDigest(HashBiometric(input_data, salt).hash, stored_template.hash)

EncryptBiometricTemplate(template, iv) ==
    Encrypt(BioKey, iv, JsonDumps(template), TemplateAD)

DecryptBiometricTemplate_unauthenticated(encrypted_template) ==
    LET decrypted == Decrypt_unauthenticated(BioKey, encrypted_template)
    IN  IF ~decrypted.ok THEN decrypted
        ELSE IF ~IsJson(decrypted.plaintext)
        THEN [ok |-> FALSE, error |-> "JSONDecodeError"]
        ELSE [ok |-> TRUE, template |-> JsonLoads(decrypted.plaintext)]
DecryptBiometricTemplate(encrypted_template) ==
    LET decrypted == Decrypt(BioKey, encrypted_template)
    IN  IF ~decrypted.ok THEN decrypted
        ELSE IF ~IsJson(decrypted.plaintext)
        THEN [ok |-> FALSE, error |-> "JSONDecodeError"]
        ELSE [ok |-> TRUE, template |-> JsonLoads(decrypted.plaintext)]

---------------------------------------------------------------------------
(* GDPRCompliance *)

Purposes == {"biometric_authentication", "marketing"}
LedgerUserIds == UserIds \cup {"DELETED_USER"}
Accessors == {"CARL_AUTH_SYSTEM", "ADMIN"}
Reasons == {"User requested data deletion"}

History(cons, user_id) == IF user_id \in DOMAIN cons THEN cons[user_id] ELSE <<>>

RecordConsent_overwrite(cons, t, user_id, purpose, consent_given, ip_address) ==
    LET consent == [user_id |-> user_id, consent_given |-> consent_given,
                    purpose |-> purpose, timestamp |-> t, ip_address |-> ip_address,
                    consent_text |-> <<"consent_text", purpose>>]
    IN  [consents |-> DictPut(cons, user_id, <<consent>>), result |-> consent]
RecordConsent(cons, t, user_id, purpose, consent_given, ip_address) ==
    LET consent == [user_id |-> user_id, consent_given |-> consent_given,
                    purpose |-> purpose, timestamp |-> t, ip_address |-> ip_address,
                    consent_text |-> <<"consent_text", purpose>>]
    IN  [consents |-> DictPut(cons, user_id, Append(History(cons, user_id), consent)),
         result |-> consent]

\* for consent in reversed(user_consents)
RECURSIVE ScanReversed(_, _, _)
ScanReversed(user_consents, i, purpose) ==
    IF i = 0 THEN FALSE
    ELSE IF user_consents[i].purpose = purpose THEN user_consents[i].consent_given
    ELSE ScanReversed(user_consents, i - 1, purpose)

RECURSIVE ScanForward(_, _, _)
ScanForward(user_consents, i, purpose) ==
    IF i > Len(user_consents) THEN FALSE
    ELSE IF user_consents[i].purpose = purpose THEN user_consents[i].consent_given
    ELSE ScanForward(user_consents, i + 1, purpose)

CheckConsent_oldest(cons, user_id, purpose) ==
    IF user_id \notin DOMAIN cons THEN FALSE
    ELSE ScanForward(cons[user_id], 1, purpose)
CheckConsent(cons, user_id, purpose) ==
    IF user_id \notin DOMAIN cons THEN FALSE
    ELSE ScanReversed(cons[user_id], Len(cons[user_id]), purpose)

LogDataAccess(logs, t, user_id, accessed_by, access_type, data_category, purpose, legal_basis) ==
    LET log == [user_id |-> user_id, accessed_by |-> accessed_by, access_type |-> access_type,
                data_category |-> data_category, timestamp |-> t, purpose |-> purpose,
                legal_basis |-> legal_basis]
    IN  [access_logs |-> Append(logs, log), result |-> log]

SelectLogs(logs, user_id) == SelectSeq(logs, LAMBDA log : log.user_id = user_id)

GetUserDataExport(cons, logs, t, user_id) ==
    LET own == History(cons, user_id)
        mine == SelectLogs(logs, user_id)
    IN  [user_id |-> user_id,
         export_date |-> t,
         consents |-> [i \in 1..Len(own) |->
                          [purpose |-> own[i].purpose, consent_given |-> own[i].consent_given,
                           timestamp |-> own[i].timestamp]],
         access_logs |-> [i \in 1..Len(mine) |->
                          [accessed_by |-> mine[i].accessed_by,
                           access_type |-> mine[i].access_type,
                           data_category |-> mine[i].data_category,
                           timestamp |-> mine[i].timestamp]],
         gdpr_notice |-> "GDPR Article 20"]

EraseUserData_droplogs(cons, logs, t, user_id, reason) ==
    [consents |-> DictDel(cons, user_id),
     access_logs |-> SelectSeq(logs, LAMBDA log : log.user_id # user_id),
     result |-> [user_id |-> user_id, erased_at |-> t, reason |-> reason,
                 status |-> "completed"]]
EraseUserData_everyentry(cons, logs, t, user_id, reason) ==
    [consents |-> DictDel(cons, user_id),
     access_logs |-> [i \in 1..Len(logs) |-> [logs[i] EXCEPT !.user_id = "DELETED_USER"]],
     result |-> [user_id |-> user_id, erased_at |-> t, reason |-> reason,
                 status |-> "completed"]]
EraseUserData(cons, logs, t, user_id, reason) ==
    [consents |-> DictDel(cons, user_id),
     access_logs |-> [i \in 1..Len(logs) |->
                         IF logs[i].user_id = user_id
                         THEN [logs[i] EXCEPT !.user_id = "DELETED_USER"]
                         ELSE logs[i]],
     result |-> [user_id |-> user_id, erased_at |-> t, reason |-> reason,
                 status |-> "completed"]]

---------------------------------------------------------------------------
(* CarlSecurityManager *)

SecureUserRegistration_recordfirst(cons, t, user_id, voice_data, face_data, consent_given, voice_salt, face_salt, voice_iv, face_iv) ==
    LET recorded == RecordConsent(cons, t, user_id, "biometric_authentication", consent_given, None)
    IN  IF ~consent_given
        THEN [consents |-> recorded.consents, ok |-> FALSE, error |-> "ValueError"]
        ELSE [consents |-> recorded.consents, ok |-> TRUE,
              result |-> [user_id |-> user_id,
                          voice_template |-> EncryptBiometricTemplate(CreateTemplate(voice_data, voice_salt, t), voice_iv),
                          face_template |-> EncryptBiometricTemplate(CreateTemplate(face_data, face_salt, t), face_iv),
                          gdpr_compliant |-> TRUE, encryption |-> "AES-256-GCM",
                          registered_at |-> t]]
SecureUserRegistration(cons, t, user_id, voice_data, face_data, consent_given, voice_salt, face_salt, voice_iv, face_iv) ==
    IF ~consent_given
    THEN [consents |-> cons, ok |-> FALSE, error |-> "ValueError"]
    ELSE LET recorded == RecordConsent(cons, t, user_id, "biometric_authentication", TRUE, None)
             voice_template == CreateTemplate(voice_data, voice_salt, t)
             face_template == CreateTemplate(face_data, face_salt, t)
         IN  [consents |-> recorded.consents, ok |-> TRUE,
              result |-> [user_id |-> user_id,
                          voice_template |-> EncryptBiometricTemplate(voice_template, voice_iv),
                          face_template |-> EncryptBiometricTemplate(face_template, face_iv),
                          gdpr_compliant |-> TRUE, encryption |-> "AES-256-GCM",
                          registered_at |-> t]]

SecureBiometricLogin_logafter(logs, t, user_id, input_biometric, stored_encrypted_template) ==
    LET logged == LogDataAccess(logs, t, user_id, "CARL_AUTH_SYSTEM", "READ",
                                "biometric_template", "authentication",
                                "Contract (GDPR Art. 6(1)(b))")
        stored == DecryptBiometricTemplate(stored_encrypted_template)
    IN  IF ~stored.ok
        THEN [access_logs |-> logs, ok |-> FALSE, error |-> stored.error]
        ELSE [access_logs |-> logged.access_logs, ok |-> TRUE,
              result |-> VerifyBiometric(input_biometric, stored.template)]
SecureBiometricLogin(logs, t, user_id, input_biometric, stored_encrypted_template) ==
    LET logged == LogDataAccess(logs, t, user_id, "CARL_AUTH_SYSTEM", "READ",
                                "biometric_template", "authentication",
                                "Contract (GDPR Art. 6(1)(b))")
        stored == DecryptBiometricTemplate(stored_encrypted_template)
    IN  IF ~stored.ok
        THEN [access_logs |-> logged.access_logs, ok |-> FALSE, error |-> stored.error]
        ELSE [access_logs |-> logged.access_logs, ok |-> TRUE,
              result |-> VerifyBiometric(input_biometric, stored.template)]

---------------------------------------------------------------------------
(* What a caller may pass as a stored blob: a blob a registration returned,
   or such a blob altered in one field, or made under another key *)

RegistrationBlobs ==
    {EncryptBiometricTemplate(CreateTemplate(sample, salt, t), iv) :
        sample \in Samples, salt \in FreshRandomness, iv \in Ivs, t \in 0..now}

Flip(str) == B64Encode(<<"flipped", B64Decode(str)>>)

AlterationKinds == {"ciphertext", "tag", "iv", "ad_none", "ad_other", "malformed"}

AlterBlob(b, kind) ==
    CASE kind = "ciphertext" -> [b EXCEPT !.ciphertext = Flip(@)]
      [] kind = "tag" -> [b EXCEPT !.tag = Flip(@)]
      [] kind = "iv" -> [b EXCEPT !.iv = Flip(@)]
      [] kind = "ad_none" -> [b EXCEPT !.associated_data = None]
      [] kind = "ad_other" -> [b EXCEPT !.associated_data = B64Encode(<<"OTHER_PURPOSE">>)]
      [] kind = "malformed" -> [b EXCEPT !.ciphertext = <<"not base64">>]
      [] OTHER -> b

Alterations(b) == {AlterBlob(b, kind) : kind \in AlterationKinds}

AlteredBlobs ==
    UNION {Alterations(EncryptBiometricTemplate(CreateTemplate(sample, salt, 0), <<"iv1">>)) :
              sample \in Samples, salt \in FreshRandomness}
       \cup {Encrypt(ManagerKey, <<"iv1">>, JsonDumps(CreateTemplate(sample, salt, 0)), TemplateAD) :
                sample \in Samples, salt \in FreshRandomness}

BlobInputs == RegistrationBlobs \cup AlteredBlobs

---------------------------------------------------------------------------
(* The specification of the ledger and the orchestrator.  No ledger or
   orchestrator operation reads a timestamp, and the clock stands still. *)

MaxLedgerRecords == 3

LedgerSize ==
    Len(access_logs)
    + Cardinality({<<u, i>> \in UserIds \X (1..MaxLedgerRecords + 1) :
                      u \in DOMAIN consents /\ i <= Len(consents[u])})

InitLedger ==
    /\ InitCommon
    /\ conc = <<>>
    /\ impl = "GDPRCompliance"

record_consent ==
    /\ LedgerSize < MaxLedgerRecords
    /\ \E user_id \in UserIds, purpose \in Purposes, consent_given \in BOOLEAN :
          LET r == RecordConsent(consents, now, user_id, purpose, consent_given, None)
          IN  /\ consents' = r.consents
              /\ ret' = [op |-> "record_consent", result |-> r.result]
    /\ UNCHANGED <<now, sessionVars, access_logs, conc, engineVars>>

check_consent ==
    /\ \E user_id \in UserIds, purpose \in Purposes :
          ret' = [op |-> "check_consent", user_id |-> user_id, purpose |-> purpose,
                  result |-> CheckConsent(consents, user_id, purpose)]
    /\ UNCHANGED <<now, sessionVars, ledgerVars, conc, engineVars>>

log_data_access ==
    /\ LedgerSize < MaxLedgerRecords
    /\ \E user_id \in UserIds, accessed_by \in Accessors :
          LET r == LogDataAccess(access_logs, now, user_id, accessed_by, "READ",
                                 "biometric_template", "authentication",
                                 "Contract (GDPR Art. 6(1)(b))")
          IN  /\ access_logs' = r.access_logs
              /\ ret' = [op |-> "log_data_access", result |-> r.result]
    /\ UNCHANGED <<now, sessionVars, consents, conc, engineVars>>

get_user_data_export ==
    /\ \E user_id \in LedgerUserIds :
          ret' = [op |-> "get_user_data_export", user_id |-> user_id,
                  result |-> GetUserDataExport(consents, access_logs, now, user_id)]
    /\ UNCHANGED <<now, sessionVars, ledgerVars, conc, engineVars>>

erase_user_data ==
    /\ \E user_id \in LedgerUserIds, reason \in Reasons :
          LET r == EraseUserData(consents, access_logs, now, user_id, reason)
          IN  /\ consents' = r.consents
              /\ access_logs' = r.access_logs
              /\ ret' = [op |-> "erase_user_data", user_id |-> user_id, result |-> r.result]
    /\ UNCHANGED <<now, sessionVars, conc, engineVars>>

secure_user_registration ==
    /\ LedgerSize < MaxLedgerRecords
    /\ \E user_id \in UserIds, voice_data \in Samples, face_data \in Samples,
          consent_given \in BOOLEAN, voice_salt \in FreshRandomness,
          face_salt \in FreshRandomness, voice_iv \in Ivs, face_iv \in Ivs :
          LET r == SecureUserRegistration(consents, now, user_id, voice_data, face_data,
                                          consent_given, voice_salt, face_salt,
                                          voice_iv, face_iv)
          IN  /\ consents' = r.consents
              /\ ret' = [op |-> "secure_user_registration", user_id |-> user_id,
                         consent_given |-> consent_given,
                         ok |-> r.ok, result |-> IF r.ok THEN "registered" ELSE r.error]
    /\ UNCHANGED <<now, sessionVars, access_logs, conc, engineVars>>

secure_biometric_login ==
    /\ LedgerSize < MaxLedgerRecords
    /\ \E user_id \in UserIds, input_biometric \in Samples, blob \in BlobInputs :
          LET r == SecureBiometricLogin(access_logs, now, user_id, input_biometric, blob)
          IN  /\ access_logs' = r.access_logs
              /\ ret' = [op |-> "secure_biometric_login", user_id |-> user_id,
                         altered |-> \E b \in RegistrationBlobs : blob \in Alterations(b),
                         ok |-> r.ok, result |-> IF r.ok THEN r.result ELSE r.error]
    /\ UNCHANGED <<now, sessionVars, consents, conc, engineVars>>

NextLedger ==
    \/ record_consent
    \/ check_consent
    \/ log_data_access
    \/ get_user_data_export
    \/ erase_user_data
    \/ secure_user_registration
    \/ secure_biometric_login

SpecLedger == InitLedger /\ [][NextLedger]_vars

---------------------------------------------------------------------------
(* The vaults alone: AES256Encryption and the template functions of
   BiometricProtection.  A vault keeps nothing but its key; the caller holds
   the blob an encryption returned, and hands it back as it is or altered. *)

Keys == {BioKey, ManagerKey}
Plaintexts == {<<"x1">>, <<>>, JsonDumps(CreateTemplate(<<"sample-A">>, <<"r1">>, 0))}
AdInputs == {None, <<>>, TemplateAD, <<"OTHER_PURPOSE">>}

InitVault ==
    /\ InitCommon
    /\ conc = <<>>
    /\ impl = "AES256Encryption"

encrypt ==
    /\ \E key \in Keys, plaintext \in Plaintexts, associated_data \in AdInputs, iv \in Ivs :
          ret' = [op |-> "encrypt", encrypted_with |-> key, plaintext |-> plaintext,
                  associated_data |-> associated_data,
                  blob |-> Encrypt(key, iv, plaintext, associated_data)]
    /\ UNCHANGED <<now, sessionVars, ledgerVars, conc, engineVars>>

encrypt_biometric_template ==
    /\ \E sample \in Samples, salt \in FreshRandomness, iv \in Ivs :
          LET template == CreateTemplate(sample, salt, now)
          IN  ret' = [op |-> "encrypt", encrypted_with |-> BioKey,
                      plaintext |-> JsonDumps(template),
                      associated_data |-> TemplateAD,
                      blob |-> EncryptBiometricTemplate(template, iv)]
    /\ UNCHANGED <<now, sessionVars, ledgerVars, conc, engineVars>>

decrypt ==
    /\ "blob" \in DOMAIN ret
    /\ \E key \in Keys, kind \in AlterationKinds \cup {"none"} :
          LET r == Decrypt(key, AlterBlob(ret.blob, kind))
          IN  ret' = [op |-> "decrypt", key |-> key, encrypted_with |-> ret.encrypted_with,
                      plaintext |-> ret.plaintext, associated_data |-> ret.associated_data,
                      blob |-> ret.blob, altered |-> kind,
                      ok |-> r.ok, result |-> IF r.ok THEN r.plaintext ELSE <<r.error>>]
    /\ UNCHANGED <<now, sessionVars, ledgerVars, conc, engineVars>>

decrypt_biometric_template ==
    /\ "blob" \in DOMAIN ret
    /\ \E kind \in AlterationKinds \cup {"none"} :
          LET r == DecryptBiometricTemplate(AlterBlob(ret.blob, kind))
          IN  ret' = [op |-> "decrypt_biometric_template", key |-> BioKey,
                      encrypted_with |-> ret.encrypted_with,
                      plaintext |-> ret.plaintext, associated_data |-> ret.associated_data,
                      blob |-> ret.blob, altered |-> kind,
                      ok |-> r.ok, result |-> IF r.ok THEN JsonDumps(r.template) ELSE <<r.error>>]
    /\ UNCHANGED <<now, sessionVars, ledgerVars, conc, engineVars>>

NextVault ==
    \/ encrypt
    \/ encrypt_biometric_template
    \/ decrypt
    \/ decrypt_biometric_template

SpecVault == InitVault /\ [][NextVault]_vars

(* CarlSecurityManager alone: registrations and logins *)

NextOrchestrator ==
    \/ secure_user_registration
    \/ secure_biometric_login

SpecOrchestrator == InitLedger /\ [][NextOrchestrator]_vars

---------------------------------------------------------------------------
(* CARLCognitiveEngine *)

\* what a caller passes as voice_sample / face_image: a capture, nothing, or
\* empty bytes
SampleInputs == Samples \cup {None, <<>>}

\* None in a field that otherwise holds a hex digest
NoneHex == [pre16 |-> None, rest |-> None]

GenerateVoiceFingerprint(audio_data) == Sha256Hex(audio_data)
GenerateFaceTemplate(image_data) == Sha256Hex(image_data)

RegisterUserBiometrics_facerightsfromvoice(registry, user_id, voice_sample, face_image, consent) ==
    IF ~consent
    THEN [user_registry |-> registry, ok |-> FALSE, error |-> "ValueError"]
    ELSE LET profile ==
                 [user_id |-> user_id,
                  voice_signature |-> IF Truthy(voice_sample)
                                      THEN GenerateVoiceFingerprint(voice_sample) ELSE NoneHex,
                  face_template |-> IF Truthy(face_image)
                                    THEN GenerateFaceTemplate(face_image) ELSE NoneHex,
                  content_rights |-> [voice |-> Truthy(voice_sample),
                                      face |-> Truthy(voice_sample)],
                  consent_given |-> consent]
         IN  [user_registry |-> DictPut(registry, user_id, profile), ok |-> TRUE,
              result |-> profile]

RegisterUserBiometrics_keepsrights(registry, user_id, voice_sample, face_image, consent) ==
    IF ~consent
    THEN [user_registry |-> registry, ok |-> FALSE, error |-> "ValueError"]
    ELSE LET had(usage_type) == user_id \in DOMAIN registry
                                   /\ registry[user_id].content_rights[usage_type]
             profile ==
                 [user_id |-> user_id,
                  voice_signature |-> IF Truthy(voice_sample)
                                      THEN GenerateVoiceFingerprint(voice_sample) ELSE NoneHex,
                  face_template |-> IF Truthy(face_image)
                                    THEN GenerateFaceTemplate(face_image) ELSE NoneHex,
                  content_rights |-> [voice |-> Truthy(voice_sample) \/ had("voice"),
                                      face |-> Truthy(face_image) \/ had("face")],
                  consent_given |-> consent]
         IN  [user_registry |-> DictPut(registry, user_id, profile), ok |-> TRUE,
              result |-> profile]

RegisterUserBiometrics(registry, user_id, voice_sample, face_image, consent) ==
    IF ~consent
    THEN [user_registry |-> registry, ok |-> FALSE, error |-> "ValueError"]
    ELSE LET profile ==
                 [user_id |-> user_id,
                  voice_signature |-> IF Truthy(voice_sample)
                                      THEN GenerateVoiceFingerprint(voice_sample) ELSE NoneHex,
                  face_template |-> IF Truthy(face_image)
                                    THEN GenerateFaceTemplate(face_image) ELSE NoneHex,
                  content_rights |-> [voice |-> Truthy(voice_sample),
                                      face |-> Truthy(face_image)],
                  consent_given |-> consent]
         IN  [user_registry |-> DictPut(registry, user_id, profile), ok |-> TRUE,
              result |-> profile]

\* usage_type is "voice" or "face" by its comment; any other string is accepted
UsageTypes == {"voice", "face", "hologram"}
CreatorIds == {"creator-1"}

RightsGet(content_rights, usage_type) ==
    IF usage_type \in DOMAIN content_rights THEN content_rights[usage_type] ELSE FALSE

CheckUsagePermission(registry, content_creator_id, user_id, usage_type) ==
    IF user_id \notin DOMAIN registry
    THEN [ok |-> FALSE, details |-> [error |-> "User not registered"]]
    ELSE IF ~RightsGet(registry[user_id].content_rights, usage_type)
    THEN [ok |-> FALSE, details |-> [error |-> <<"No", usage_type, "rights granted">>]]
    ELSE [ok |-> TRUE,
          details |-> [license_active |-> TRUE, royalty_rate |-> "0.15",
                       terms |-> "zero_knowledge_proof"]]

\* what a caller passes as audio_data
AudioInputs == Samples \cup {<<>>}
\* None as claimed_user_id, the default
NoUserId == "None"
\* what a caller passes as claimed_user_id: nothing, an empty string, a user
\* id, or the id of somebody who never registered
ClaimedUserIds == UserIds \cup {NoUserId, "", "U9"}

\* confidence in hundredths
DetectDeepfakeAudio_samevoice(registry, audio_data, claimed_user_id) ==
    IF claimed_user_id # NoUserId /\ claimed_user_id # "" /\ claimed_user_id \in DOMAIN registry
    THEN LET stored_print == registry[claimed_user_id].voice_signature
             current_print == GenerateVoiceFingerprint(audio_data)
         IN  IF stored_print = current_print
             THEN [is_synthetic |-> TRUE, confidence |-> 88]
             ELSE [is_synthetic |-> FALSE, confidence |-> 95]
    ELSE [is_synthetic |-> FALSE, confidence |-> 95]
DetectDeepfakeAudio(registry, audio_data, claimed_user_id) ==
    IF claimed_user_id # NoUserId /\ claimed_user_id # "" /\ claimed_user_id \in DOMAIN registry
    THEN LET stored_print == registry[claimed_user_id].voice_signature
             current_print == GenerateVoiceFingerprint(audio_data)
         IN  IF stored_print # current_print
             THEN [is_synthetic |-> TRUE, confidence |-> 88]
             ELSE [is_synthetic |-> FALSE, confidence |-> 95]
    ELSE [is_synthetic |-> FALSE, confidence |-> 95]

\* Text is a sequence of characters, an accented letter written by its name
\* ("e-acute", "E-acute").  str.lower() on the letters that occur
\* in the patterns and the sample texts; every other character is its own
\* lower case.
LowerLetters ==
    <<"a", "b", "c", "d", "e", "g", "h", "i", "k", "l", "m", "n", "o", "p", "r", "s", "t", "u", "v", "w", "y", "z", "a-acute", "e-acute", "o-acute", "o-diaeresis", "u-diaeresis", "u-double-acute">>
UpperLetters ==
    <<"A", "B", "C", "D", "E", "G", "H", "I", "K", "L", "M", "N", "O", "P", "R", "S", "T", "U", "V", "W", "Y", "Z", "A-acute", "E-acute", "O-acute", "O-diaeresis", "U-diaeresis", "U-double-acute">>

Lower(ch) ==
    IF \E i \in 1..Len(UpperLetters) : UpperLetters[i] = ch
    THEN LowerLetters[CHOOSE i \in 1..Len(UpperLetters) : UpperLetters[i] = ch]
    ELSE ch
TextLower(text) == [i \in 1..Len(text) |-> Lower(text[i])]

\* pattern in text
Contains(text, pattern) ==
    \E i \in 0..(Len(text) - Len(pattern)) : SubSeq(text, i + 1, i + Len(pattern)) = pattern

SuspiciousPatterns ==
    <<<<"l", "i", "n", "k", "b", "i", "o">>,
     <<"s", "w", "i", "p", "e", " ", "u", "p">>,
     <<"k", "o-acute", "d", ":">>,
     <<"k", "e", "d", "v", "e", "z", "m", "e-acute", "n", "y">>,
     <<"e", "g", "y", "u-diaeresis", "t", "t", "m", "u-double-acute", "k", "o-diaeresis", "d", "e-acute", "s">>,
     <<"s", "z", "p", "o", "n", "z", "o", "r", " ", "n", "e-acute", "l", "k", "u-diaeresis", "l">>>>

DetectHiddenAdvertisement_casesensitive(text) ==
    \E k \in 1..Len(SuspiciousPatterns) : Contains(text, SuspiciousPatterns[k])
DetectHiddenAdvertisement(text) ==
    LET text_lower == TextLower(text)
    IN  \E k \in 1..Len(SuspiciousPatterns) : Contains(text_lower, SuspiciousPatterns[k])

DetectMisinformation(text) == FALSE
CheckCopyrightViolation(text, media) == FALSE

\* confidence in hundredths
DetectDeepfakeVideo(video_data, claimed_user_id) == [is_synthetic |-> FALSE, confidence |-> 92]

Md5Hex(bytes) == <<"md5", bytes>>

ContentTypes == {"text", "image", "video", "audio", "mixed"}
Version == <<"0.1.0-beta">>

AnalyzeSocialContent(registry, content, content_type, media_data) ==
    LET hidden == DetectHiddenAdvertisement(content)
        misinformation == DetectMisinformation(content)
        deepfake ==
            IF Truthy(media_data) /\ content_type = "audio"
            THEN DetectDeepfakeAudio(registry, media_data, NoUserId)
            ELSE IF Truthy(media_data) /\ content_type = "video"
            THEN DetectDeepfakeVideo(media_data, NoUserId)
            ELSE [is_synthetic |-> FALSE, confidence |-> 0]
        copyright_violation == CheckCopyrightViolation(content, media_data)
    IN  [content_id |-> Md5Hex(Encode(content)),
         content_type |-> content_type,
         is_synthetic |-> deepfake.is_synthetic,
         confidence |-> deepfake.confidence,
         threat_level |-> IF copyright_violation THEN "illegal"
                          ELSE IF misinformation THEN "harmful"
                          ELSE IF hidden THEN "suspicious"
                          ELSE "safe",
         flags |-> (IF hidden THEN <<"REJTETT_REKLAM">> ELSE <<>>)
                   \o (IF misinformation THEN <<"DEZINFORMACIO">> ELSE <<>>)
                   \o (IF Truthy(media_data) /\ deepfake.is_synthetic
                       THEN <<"AI_GENERALT">> ELSE <<>>)
                   \o (IF copyright_violation THEN <<"SZERZOI_JOG_SERTES">> ELSE <<>>),
         details |-> [analyzed_by |-> <<"CARL v">> \o Version, gdpr_compliant |-> TRUE]]

\* what a caller passes as content: each pattern as it is, in capitals, with a
\* capital first letter, inside a sentence, cut short by a character and
\* broken by a space; texts without a pattern
TextUpper(text) ==
    [i \in 1..Len(text) |->
        IF \E j \in 1..Len(LowerLetters) : LowerLetters[j] = text[i]
        THEN UpperLetters[CHOOSE j \in 1..Len(LowerLetters) : LowerLetters[j] = text[i]]
        ELSE text[i]]
ContentInputs ==
    LET Capitalised(text) == TextUpper(SubSeq(text, 1, 1)) \o SubSeq(text, 2, Len(text))
        CutShort(text) == SubSeq(text, 1, Len(text) - 1)
        Broken(text) == SubSeq(text, 1, 2) \o <<" ">> \o SubSeq(text, 3, Len(text))
        CleanTexts ==
            {<<>>,
             <<"E", "z", " ", "e", "g", "y", " ", "k", "o-diaeresis", "z", "l", "e", "m", "e-acute", "n", "y", ".">>}
    IN  UNION {{pattern, TextUpper(pattern), Capitalised(pattern),
                <<"A", " ">> \o Capitalised(pattern) \o <<"!">>,
                CutShort(pattern), Broken(pattern)} :
                  pattern \in {SuspiciousPatterns[k] : k \in 1..Len(SuspiciousPatterns)}}
           \cup CleanTexts
           \cup {<<"K", "e", "d", "v", "e", "z", "m", "e-acute", "n", "y", "!", " ", "L", "i", "n", "k", "b", "i", "o", ",", " ", "h", "a", "s", "z", "n", "a-acute", "l", "d", " ", "a", " ", "k", "o-acute", "d", ":", " ", "C", "A", "R", "L", "1", "0", " ", "k", "u", "p", "o", "n", "t">>}
MediaInputs == {None, <<>>, <<"sample-A">>}

InitEngine ==
    /\ InitCommon
    /\ conc = <<>>
    /\ impl = "CARLCognitiveEngine"

register_user_biometrics ==
    /\ \E user_id \in UserIds, voice_sample \in SampleInputs, face_image \in SampleInputs,
          consent \in BOOLEAN :
          LET r == RegisterUserBiometrics(user_registry, user_id, voice_sample, face_image,
                                          consent)
          IN  /\ user_registry' = r.user_registry
              /\ ret' = [op |-> "register_user_biometrics", user_id |-> user_id,
                         voice_sample |-> voice_sample, face_image |-> face_image,
                         consent_given |-> consent,
                         ok |-> r.ok, result |-> IF r.ok THEN r.result ELSE r.error]
    /\ UNCHANGED <<now, sessionVars, ledgerVars, conc>>

check_usage_permission ==
    /\ \E content_creator_id \in CreatorIds, user_id \in UserIds, usage_type \in UsageTypes :
          LET r == CheckUsagePermission(user_registry, content_creator_id, user_id, usage_type)
          IN  ret' = [op |-> "check_usage_permission", user_id |-> user_id,
                      usage_type |-> usage_type, ok |-> r.ok, result |-> r.details]
    /\ UNCHANGED <<now, sessionVars, ledgerVars, conc, engineVars>>

detect_deepfake_audio ==
    /\ \E audio_data \in AudioInputs, claimed_user_id \in ClaimedUserIds :
          LET r == DetectDeepfakeAudio(user_registry, audio_data, claimed_user_id)
          IN  ret' = [op |-> "detect_deepfake_audio", audio_data |-> audio_data,
                      claimed_user_id |-> claimed_user_id,
                      is_synthetic |-> r.is_synthetic, confidence |-> r.confidence]
    /\ UNCHANGED <<now, sessionVars, ledgerVars, conc, engineVars>>

NextEngine ==
    \/ register_user_biometrics
    \/ check_usage_permission
    \/ detect_deepfake_audio

SpecEngine == InitEngine /\ [][NextEngine]_vars

(* The content analysis of the engine alone *)

analyze_social_content ==
    /\ \E content \in ContentInputs, content_type \in ContentTypes, media_data \in MediaInputs :
          ret' = [op |-> "analyze_social_content", content |-> content,
                  media_data |-> media_data,
                  result |-> AnalyzeSocialContent(user_registry, content, content_type,
                                                  media_data)]
    /\ UNCHANGED <<now, sessionVars, ledgerVars, conc, engineVars>>

NextAnalysis ==
    \/ analyze_social_content

SpecAnalysis == InitEngine /\ [][NextAnalysis]_vars

(* A deployment that holds a CARLCognitiveEngine and a GDPRCompliance ledger
   side by side.  Neither class refers to the other: the engine keeps the
   profiles in user_registry, the ledger keeps consents and access_logs. *)

InitPlatform ==
    /\ InitCommon
    /\ conc = <<>>
    /\ impl = "CARLCognitiveEngine+GDPRCompliance"

NextPlatform ==
    \/ register_user_biometrics
    \/ check_usage_permission
    \/ erase_user_data

SpecPlatform == InitPlatform /\ [][NextPlatform]_vars

(* The two registration paths: a run exercises either the security manager
   with its ledger, or the cognitive engine *)

InitRegistration == InitLedger \/ InitEngine

NextRegistration ==
    \/ impl = "GDPRCompliance" /\ NextLedger
    \/ impl = "CARLCognitiveEngine" /\ NextEngine

SpecRegistration == InitRegistration /\ [][NextRegistration]_vars

---------------------------------------------------------------------------
(* SimpleZKP called from several threads.  Nothing in the class takes a lock,
   so a thread switch can fall between any two accesses of
   self.active_sessions; each action below is one such access together with
   the thread-local computation that follows it.  A thread keeps the session
   object it looked up (a reference that outlives the dict entry).
   secrets.token_hex(16) gives an id that was not issued before. *)

Threads == {"t1", "t2"}
\* one challenge value: a thread computes is_valid from its own proof and secret
ThreadedChallenges == {<<"cA">>}

IdleThread ==
    [pc |-> "idle", session_id |-> "none", session |-> None, is_valid |-> FALSE,
     outcome |-> "none"]
IdleSweep ==
    [pc |-> "idle", now |-> 0, di_used |-> 0, visited |-> {}, expired |-> <<>>,
     outcome |-> "none", failed_on |-> "none"]

\* a call has returned or raised: its locals are gone, its outcome is kept
Done(me, outcome) == [me EXCEPT !.pc = "done", !.session = None, !.outcome = outcome]

SweepDone(outcome, failed_on) ==
    [IdleSweep EXCEPT !.pc = "done", !.outcome = outcome, !.failed_on = failed_on]

InitConc ==
    /\ InitCommon
    /\ impl = "SimpleZKP"
    /\ conc = [threads |-> [t \in Threads |-> IdleThread],
               sweep |-> IdleSweep,
               removed_by |-> [s \in SessionIds |-> "none"]]

\* create_challenge, with the session id fresh
create_challenge_fresh ==
    /\ \E session_id \in SessionIds, challenge \in ThreadedChallenges, ttl \in TtlInputs :
          /\ session_id \notin DOMAIN active_sessions
          /\ conc.removed_by[session_id] = "none"
          /\ LET commitment == CreateCommitmentP(<<"K">>, <<"r1">>).commitment
                 r == CreateChallengeP(active_sessions, now, session_id, challenge,
                                       "U1", commitment, ttl)
             IN  /\ active_sessions' = r.store
                 /\ accepted' = [accepted EXCEPT ![session_id] = 0]
    /\ UNCHANGED <<now, impl, proofs_cache, ret, ledgerVars, conc, engineVars>>

\* verify_proof: session = self.active_sessions.get(session_id); if not session
verify_proof_get(t) ==
    /\ conc.threads[t].pc = "idle"
    /\ \E session_id \in SessionIds, proof \in ProofInputs, secret \in Secrets :
          conc' = [conc EXCEPT !.threads[t] =
                      IF session_id \notin DOMAIN active_sessions
                      THEN [IdleThread EXCEPT !.pc = "done", !.session_id = session_id,
                                              !.outcome = "False"]
                      ELSE [pc |-> "check", session_id |-> session_id,
                            session |-> active_sessions[session_id],
                            is_valid |-> IsValidP(active_sessions[session_id], proof, secret),
                            outcome |-> "none"]]
    /\ UNCHANGED <<now, sessionVars, ret, ledgerVars, engineVars>>

\* verify_proof: if datetime.now() > session['expires_at'], else is_valid
verify_proof_check(t) ==
    LET me == conc.threads[t]
    IN  /\ me.pc = "check"
        /\ conc' = [conc EXCEPT !.threads[t] =
                       IF IsExpired(me.session, now)
                       THEN [me EXCEPT !.pc = "del_expired"]
                       ELSE IF me.is_valid
                       THEN [me EXCEPT !.pc = "del_valid"]
                       ELSE Done(me, "False")]
        /\ UNCHANGED <<now, sessionVars, ret, ledgerVars, engineVars>>

\* verify_proof: del self.active_sessions[session_id]; return False
verify_proof_del_expired(t) ==
    LET me == conc.threads[t]
    IN  /\ me.pc = "del_expired"
        /\ IF me.session_id \in DOMAIN active_sessions
           THEN /\ active_sessions' = DictDel(active_sessions, me.session_id)
                /\ conc' = [conc EXCEPT !.threads[t] = Done(me, "False"),
                                        !.removed_by[me.session_id] = "verify"]
           ELSE /\ active_sessions' = active_sessions
                /\ conc' = [conc EXCEPT !.threads[t] = Done(me, "KeyError")]
        /\ UNCHANGED <<now, impl, proofs_cache, accepted, ret, ledgerVars, engineVars>>

\* verify_proof: if is_valid: del self.active_sessions[session_id]; return is_valid
verify_proof_del_valid(t) ==
    LET me == conc.threads[t]
    IN  /\ me.pc = "del_valid"
        /\ IF me.session_id \in DOMAIN active_sessions
           THEN /\ active_sessions' = DictDel(active_sessions, me.session_id)
                /\ accepted' = [accepted EXCEPT ![me.session_id] = Bump(@)]
                /\ conc' = [conc EXCEPT !.threads[t] = Done(me, "True"),
                                        !.removed_by[me.session_id] = "verify"]
           ELSE /\ UNCHANGED <<active_sessions, accepted>>
                /\ conc' = [conc EXCEPT !.threads[t] = Done(me, "KeyError")]
        /\ UNCHANGED <<now, impl, proofs_cache, ret, ledgerVars, engineVars>>

\* cleanup_expired_sessions: now = datetime.now(); the iterator of .items()
cleanup_begin ==
    /\ conc.sweep.pc \in {"idle", "done"}
    /\ conc' = [conc EXCEPT !.sweep =
                   [IdleSweep EXCEPT !.pc = "scan", !.now = now,
                                     !.di_used = Cardinality(DOMAIN active_sessions)]]
    /\ UNCHANGED <<now, sessionVars, ret, ledgerVars, engineVars>>

\* cleanup_expired_sessions: one step of the list comprehension; the dict
\* iterator raises RuntimeError when the dict has changed size
cleanup_scan ==
    LET sw == conc.sweep
        size == Cardinality(DOMAIN active_sessions)
        todo == DOMAIN active_sessions \ sw.visited
    IN  /\ sw.pc = "scan"
        /\ IF size # sw.di_used
           THEN conc' = [conc EXCEPT !.sweep =
                            SweepDone("RuntimeError", IF size < sw.di_used THEN "shrunk" ELSE "grown")]
           ELSE IF todo = {}
           THEN conc' = [conc EXCEPT !.sweep = [sw EXCEPT !.pc = "delete", !.di_used = 0, !.visited = {}]]
           ELSE \E sid \in todo :
                   conc' = [conc EXCEPT !.sweep =
                               [sw EXCEPT !.visited = @ \cup {sid},
                                          !.expired = IF IsExpired(active_sessions[sid], sw.now)
                                                      THEN Append(@, sid) ELSE @]]
        /\ UNCHANGED <<now, sessionVars, ret, ledgerVars, engineVars>>

\* cleanup_expired_sessions: for sid in expired: del self.active_sessions[sid]
cleanup_delete ==
    LET sw == conc.sweep
    IN  /\ sw.pc = "delete"
        /\ IF sw.expired = <<>>
           THEN /\ active_sessions' = active_sessions
                /\ conc' = [conc EXCEPT !.sweep = SweepDone("ok", "none")]
           ELSE LET sid == Head(sw.expired)
                IN  IF sid \in DOMAIN active_sessions
                    THEN /\ active_sessions' = DictDel(active_sessions, sid)
                         /\ conc' = [conc EXCEPT !.sweep = [sw EXCEPT !.expired = Tail(@)],
                                                 !.removed_by[sid] = "sweep"]
                    ELSE /\ active_sessions' = active_sessions
                         /\ conc' = [conc EXCEPT !.sweep = SweepDone("KeyError", sid)]
        /\ UNCHANGED <<now, impl, proofs_cache, accepted, ret, ledgerVars, engineVars>>

NextConc ==
    \/ Tick
    \/ create_challenge_fresh
    \/ \E t \in Threads : verify_proof_get(t)
    \/ \E t \in Threads : verify_proof_check(t)
    \/ \E t \in Threads : verify_proof_del_expired(t)
    \/ \E t \in Threads : verify_proof_del_valid(t)
    \/ cleanup_begin
    \/ cleanup_scan
    \/ cleanup_delete

SpecConc == InitConc /\ [][NextConc]_vars

---------------------------------------------------------------------------
(* GDPRCompliance.record_consent called from several threads.  The method
   takes no lock: it tests `user_id not in self.consents`, stores a new list
   under the user id if the test held, looks the list up again and appends to
   it.  Each action below is one access of self.consents.  A list is an
   object: a thread that has looked the list up appends to that object even
   if another thread has stored a new list under the user id since; orphan
   says that the list a thread holds is no longer the one in the dict. *)

IdleCaller ==
    [pc |-> "idle", user_id |-> "none", consent |-> <<>>, orphan |-> FALSE]

InitConsentConc ==
    /\ InitCommon
    /\ impl = "GDPRCompliance"
    /\ conc = [threads |-> [t \in Threads |-> IdleCaller]]

\* consent = GDPRConsent(...); if user_id not in self.consents
record_consent_test(t) ==
    /\ conc.threads[t].pc = "idle"
    /\ \E user_id \in UserIds, purpose \in Purposes, consent_given \in BOOLEAN :
          LET consent == RecordConsent(NoStore, now, user_id, purpose, consent_given, None).result
          IN  conc' = [conc EXCEPT !.threads[t] =
                          [pc |-> IF user_id \notin DOMAIN consents THEN "create" ELSE "lookup",
                           user_id |-> user_id, consent |-> <<consent>>, orphan |-> FALSE]]
    /\ UNCHANGED <<now, sessionVars, ret, ledgerVars, engineVars>>

\* self.consents[user_id] = []
record_consent_create(t) ==
    /\ conc.threads[t].pc = "create"
    /\ LET me == conc.threads[t]
       IN  /\ consents' = DictPut(consents, me.user_id, <<>>)
           /\ conc' = [conc EXCEPT !.threads =
                          [o \in Threads |->
                              IF o = t THEN [me EXCEPT !.pc = "lookup"]
                              ELSE IF conc.threads[o].pc = "append"
                                      /\ conc.threads[o].user_id = me.user_id
                                   THEN [conc.threads[o] EXCEPT !.orphan = TRUE]
                                   ELSE conc.threads[o]]]
    /\ UNCHANGED <<now, sessionVars, ret, access_logs, engineVars>>

\* self.consents[user_id], the receiver of .append
record_consent_lookup(t) ==
    /\ conc.threads[t].pc = "lookup"
    /\ conc' = [conc EXCEPT !.threads[t].pc = "append", !.threads[t].orphan = FALSE]
    /\ UNCHANGED <<now, sessionVars, ret, ledgerVars, engineVars>>

\* .append(consent); return consent
record_consent_append(t) ==
    /\ conc.threads[t].pc = "append"
    /\ LET me == conc.threads[t]
       IN  /\ consents' = IF me.orphan THEN consents
                          ELSE DictPut(consents, me.user_id,
                                       Append(consents[me.user_id], me.consent[1]))
           /\ ret' = [op |-> "record_consent", result |-> me.consent[1]]
           /\ conc' = [conc EXCEPT !.threads[t].pc = "done", !.threads[t].orphan = FALSE]
    /\ UNCHANGED <<now, sessionVars, access_logs, engineVars>>

NextConsentConc ==
    \/ \E t \in Threads : record_consent_test(t)
    \/ \E t \in Threads : record_consent_create(t)
    \/ \E t \in Threads : record_consent_lookup(t)
    \/ \E t \in Threads : record_consent_append(t)

SpecConsentConc == InitConsentConc /\ [][NextConsentConc]_vars

---------------------------------------------------------------------------
(* Properties of the session stores *)

\* verify of the protocol object a run exercises
Verify(store, t, session_id, proof, secret) ==
    IF impl = "SimpleZKP"
    THEN VerifyProofP(store, t, session_id, proof, secret)
    ELSE VerifyBiometricZkp(store, t, session_id, proof, secret)

\* the prover's proof, as the protocol object a run exercises computes it
Prove(secret, challenge, randomness) ==
    IF impl = "SimpleZKP"
    THEN GenerateProofP(secret, challenge, randomness)
    ELSE GenerateProof(secret, challenge, randomness, now).proof

(* C1: a verify call on an existing, unexpired session (it reached the proof
   check: accepted or rejected) leaves the session out of the store. *)
C1_ConsumedByFirstAttempt ==
    (ret.op = "verify" /\ ret.why \in {"valid", "invalid"})
        => ret.session_id \notin DOMAIN Store

(* C2: for every session at most one verify call returns true; right after a
   verify that returned true the session is gone and every further verify on
   that session id, whatever the proof and the secret, returns false. *)
C2_VerifiedAtMostOnce ==
    /\ \A sid \in SessionIds : accepted[sid] <= 1
    /\ (ret.op = "verify" /\ ret.result = TRUE) =>
          /\ ret.session_id \notin DOMAIN Store
          /\ \A proof \in ProofInputs, secret \in Secrets :
                Verify(Store, now, ret.session_id, proof, secret).result = FALSE

\* a session was verified once, and the verify repeated on it has returned false
C2_Witness ==
    /\ ret.op = "verify" /\ ret.result = FALSE /\ ret.why = "not_found"
    /\ accepted[ret.session_id] = 1

(* C3: a verify call after the session's expiry time returns false and removes
   the session, whatever the proof; a verify call on a session id that is not
   in the store returns false and leaves the store as it is. *)
C3_ExpiredOrAbsent ==
    [][ret'.op = "verify" =>
          LET sid == ret'.session_id
          IN  /\ sid \notin DOMAIN Store => (ret'.result = FALSE /\ Store' = Store)
              /\ (sid \in DOMAIN Store /\ now > Store[sid].expires_at) =>
                    (ret'.result = FALSE /\ Store' = DictDel(Store, sid))]_vars

\* a verify call found its session past expiry
C3_Witness ==
    /\ ret.op = "verify" /\ ret.why = "expired" /\ ret.result = FALSE
    /\ ret.session_id \notin DOMAIN Store

(* C4: the honest run of the prototype: a session opened on the commitment
   create_commitment(K) gave, answered before expiry with
   generate_proof(K, challenge, randomness) and checked against K, verifies
   true, and the same call repeated returns false. *)
C4_HonestRunVerifies ==
    \A sid \in DOMAIN active_sessions, K \in Secrets, r \in FreshRandomness :
        LET session == active_sessions[sid]
            proof == GenerateProofP(K, session.challenge, r)
            first == VerifyProofP(active_sessions, now, sid, proof, K)
        IN  (session.commitment = CreateCommitmentP(K, r).commitment /\ ~(now > session.expires_at))
                => /\ first.result = TRUE
                   /\ VerifyProofP(first.store, now, sid, proof, K).result = FALSE

(* C5: a proof computed for challenge A is never accepted by a session whose
   stored challenge B differs from A, whatever the secrets and the randomness
   (challenges are the fixed-width tokens the verifier draws). *)
C5_ProofBoundToChallenge ==
    \A sid \in DOMAIN Store, s \in Secrets, A \in Challenges, r \in RandomnessInputs,
       secret \in Secrets :
        A # Store[sid].challenge
            => Verify(Store, now, sid, Prove(s, A, r), secret).result = FALSE

\* a verify call on a live session rejected its proof, with the other challenge in play
C5_Witness ==
    /\ ret.op = "verify" /\ ret.why = "invalid"
    /\ ret.session_id \in DOMAIN Store
    /\ \E A \in Challenges : A # Store[ret.session_id].challenge

(* C23: a prover that holds a secret W different from the secret K the
   verifier checks against is never authenticated: on a session opened with a
   commitment to W, verify of generate_proof(W, challenge, randomness)
   against K returns false. *)
C23_WrongSecretNeverAuthenticated ==
    \A sid \in DOMAIN Store, W \in Secrets, K \in Secrets, r \in RandomnessInputs :
        (W # K /\ Store[sid].commitment = CreateCommitmentP(W, r).commitment)
            => Verify(Store, now, sid, Prove(W, Store[sid].challenge, r), K).result = FALSE

\* a verify call rejected a proof on a live session that was opened with a
\* commitment to W, and there the proof of W is rejected against K at the
\* proof check
C23_Witness ==
    /\ ret.op = "verify" /\ ret.why = "invalid"
    /\ ret.session_id \in DOMAIN Store
    /\ \E W \in Secrets, K \in Secrets, r \in RandomnessInputs :
          LET session == Store[ret.session_id]
          IN  /\ W # K
              /\ session.commitment = CreateCommitmentP(W, r).commitment
              /\ Verify(Store, now, ret.session_id, Prove(W, session.challenge, r), K).why
                    = "invalid"

(* C25: cleanup_expired_sessions removes exactly the sessions whose expiry
   time is past when the sweep runs and leaves every other session in the
   store as it was; after the sweep no session past its expiry remains. *)
C25_SweepRemovesExactlyExpired ==
    [][ret'.op = "cleanup_expired_sessions" =>
          /\ \A sid \in DOMAIN active_sessions :
                IF now > active_sessions[sid].expires_at
                THEN sid \notin DOMAIN active_sessions'
                ELSE /\ sid \in DOMAIN active_sessions'
                     /\ active_sessions'[sid] = active_sessions[sid]
          /\ DOMAIN active_sessions' \subseteq DOMAIN active_sessions
          /\ \A sid \in DOMAIN active_sessions' : ~(now' > active_sessions'[sid].expires_at)]_vars

\* a sweep has removed a session and left another, which is at its expiry
\* time but not past it
C25_Witness ==
    /\ ret.op = "cleanup_expired_sessions"
    /\ ret.removed >= 1
    /\ \E sid \in DOMAIN active_sessions : active_sessions[sid].expires_at = now

(* C26: with the clock advancing and cleanup_expired_sessions run again and
   again, every session opened in SimpleZKP eventually leaves the store,
   whether or not verify is called for it; and once a session is past its
   expiry time no verify call on it returns true. *)
C26_EverySessionEventuallyLeaves ==
    /\ \A sid \in SessionIds :
          (sid \in DOMAIN active_sessions) ~> (sid \notin DOMAIN active_sessions)
    /\ [](\A sid \in DOMAIN active_sessions, proof \in ProofInputs, secret \in Secrets :
             now > active_sessions[sid].expires_at
                => VerifyProofP(active_sessions, now, sid, proof, secret).result = FALSE)

\* the sweep has emptied the store of sessions that no verify call had accepted
C26_Witness ==
    /\ ret.op = "cleanup_expired_sessions"
    /\ ret.removed = Cardinality(SessionIds)
    /\ active_sessions = NoStore
    /\ \A sid \in SessionIds : accepted[sid] = 0

(* C31: verify_proof, verify_biometric_zkp and cleanup_expired_sessions add
   no session and change no stored field of a session: all they do to the
   session store is remove sessions, and a verify on one session id neither
   removes nor alters a session stored under another id. *)
C31_VerifyAndSweepOnlyRemove ==
    [][ret'.op \in {"verify", "cleanup_expired_sessions"} =>
          /\ DOMAIN Store' \subseteq DOMAIN Store
          /\ \A sid \in DOMAIN Store' : Store'[sid] = Store[sid]
          /\ ret'.op = "verify" =>
                \A sid \in DOMAIN Store \ {ret'.session_id} :
                    sid \in DOMAIN Store' /\ Store'[sid] = Store[sid]]_vars

\* a verify call has removed its session and the session stored under the
\* other id is still there
C31_Witness ==
    /\ ret.op = "verify" /\ ret.why \in {"valid", "expired"}
    /\ ret.session_id \notin DOMAIN Store
    /\ Store # NoStore

(* C33: the honest run of ZeroKnowledgeProof: on a session that
   create_biometric_zkp_session(user, h) opened, and up to its expiry time,
   verify_biometric_zkp of generate_proof(h, challenge, salt) against h returns
   true and removes the session, and the same proof checked against another
   biometric hash returns false. *)
C33_HonestBiometricRunVerifies ==
    \A sid \in DOMAIN proofs_cache, h \in Secrets :
        LET session == proofs_cache[sid]
            proof == GenerateProof(h, session.challenge, session.salt, now).proof
            honest == VerifyBiometricZkp(proofs_cache, now, sid, proof, h)
        IN  (session.commitment = GenerateCommitment(h, session.salt).commitment
             /\ ~(now > session.expires_at))
                => /\ honest.result = TRUE
                   /\ honest.store = DictDel(proofs_cache, sid)
                   /\ \A other \in Secrets \ {h} :
                         VerifyBiometricZkp(proofs_cache, now, sid, proof, other).result = FALSE

\* a verify_biometric_zkp call has returned true and its session is gone,
\* while the other session is still open and unexpired
C33_Witness ==
    /\ impl = "ZeroKnowledgeProof"
    /\ ret.op = "verify" /\ ret.result = TRUE
    /\ ret.session_id \notin DOMAIN proofs_cache
    /\ \E sid \in DOMAIN proofs_cache : ~(now > proofs_cache[sid].expires_at)

(* C6: of two verify calls that have both looked up the same session with an
   acceptable proof, at most one returns true, and neither ends in a failure
   other than false because the other one consumed the session. *)
C6_ConcurrentVerifyExactlyOne ==
    \A t1, t2 \in Threads :
        LET a == conc.threads[t1]
            b == conc.threads[t2]
        IN  (/\ t1 # t2
             /\ a.pc = "done" /\ b.pc = "done"
             /\ a.session_id = b.session_id
             /\ a.is_valid /\ b.is_valid)
                => /\ ~(a.outcome = "True" /\ b.outcome = "True")
                   /\ conc.removed_by[a.session_id] = "verify"
                         => (a.outcome # "KeyError" /\ b.outcome # "KeyError")

(* C7: neither a verify_proof that has looked up a session nor the expiry
   sweep fails because the other one removed that session in between. *)
C7_SweepDoesNotRaceWithVerify ==
    /\ \A t \in Threads :
          conc.threads[t].outcome = "KeyError"
              => conc.removed_by[conc.threads[t].session_id] # "sweep"
    /\ conc.sweep.outcome = "KeyError" => conc.removed_by[conc.sweep.failed_on] # "verify"
    /\ ~(conc.sweep.outcome = "RuntimeError" /\ conc.sweep.failed_on = "shrunk")


\* a proof string that agrees with the digest the verifier expects on its
\* first 16 characters and continues with arbitrary text
ForgedProofs ==
    {[pre16 |-> ExpectedProofPrefix(secret, challenge), rest |-> <<"arbitrary text">>] :
        secret \in Secrets, challenge \in Challenges}

(* C20: SimpleZKP.verify_proof accepts a proof only if it is a whole proof
   value for the secret and the challenge of the session; a string that
   agrees with the expected digest only on its first 16 characters is
   rejected. *)
C20_FullDigestCompared ==
    \A sid \in DOMAIN active_sessions, secret \in Secrets, proof \in ProofInputs \cup ForgedProofs :
        VerifyProofP(active_sessions, now, sid, proof, secret).result = TRUE
            => \E r \in RandomnessInputs :
                  proof = GenerateProofP(secret, active_sessions[sid].challenge, r)

---------------------------------------------------------------------------
(* Properties of the consent and access ledger *)

\* the granted value of the last record of the pair in the user's history
MostRecentGranted(user_id, purpose) ==
    LET h == History(consents, user_id)
        idx == {i \in 1..Len(h) : h[i].user_id = user_id /\ h[i].purpose = purpose}
    IN  IF idx = {} THEN FALSE
        ELSE h[CHOOSE i \in idx : \A j \in idx : j <= i].consent_given

(* C8: check_consent(user, purpose) returns the granted value of the most
   recently recorded consent of exactly that pair, and false when the pair has
   no record; records of a user are kept only in that user's history. *)
C8_CheckConsentMostRecent ==
    /\ \A v \in DOMAIN consents : \A i \in 1..Len(consents[v]) : consents[v][i].user_id = v
    /\ \A u \in LedgerUserIds, p \in Purposes :
          CheckConsent(consents, u, p) = MostRecentGranted(u, p)
    /\ ret.op = "check_consent" => ret.result = MostRecentGranted(ret.user_id, ret.purpose)

\* check_consent answered from the newer of two records of the pair that
\* disagree, with a record of another purpose recorded after them
C8_Witness ==
    /\ ret.op = "check_consent"
    /\ ret.user_id \in DOMAIN consents
    /\ LET h == consents[ret.user_id]
       IN  \E i, j, k \in 1..Len(h) :
              /\ i < j /\ j < k
              /\ h[i].purpose = ret.purpose /\ h[j].purpose = ret.purpose
              /\ h[k].purpose # ret.purpose
              /\ h[i].consent_given # h[j].consent_given
              /\ ret.result = h[j].consent_given

IsPrefix(a, b) == Len(a) <= Len(b) /\ \A i \in 1..Len(a) : a[i] = b[i]

(* C9: record_consent appends exactly one record at the end of the user's
   history and changes nothing else; a successful registration does the same
   with a granted biometric_authentication record; no operation other than
   erase_user_data removes or rewrites a recorded consent. *)
C9_RecordConsentAppends ==
    [][/\ ret'.op = "record_consent" =>
            LET u == ret'.result.user_id
            IN  /\ consents' = DictPut(consents, u, Append(History(consents, u), ret'.result))
                /\ access_logs' = access_logs
       /\ (ret'.op = "secure_user_registration" /\ ret'.ok) =>
            LET u == ret'.user_id
                h == History(consents', u)
            IN  /\ Len(h) = Len(History(consents, u)) + 1
                /\ h[Len(h)].purpose = "biometric_authentication"
                /\ h[Len(h)].consent_given = TRUE
                /\ h[Len(h)].user_id = u
                /\ consents' = DictPut(consents, u, h)
       /\ ret'.op # "erase_user_data" =>
            \A v \in DOMAIN consents :
                v \in DOMAIN consents' /\ IsPrefix(consents[v], consents'[v])
      ]_vars

\* a consent was recorded after an earlier one of the same user, another user
\* having a history too
C9_Witness ==
    /\ ret.op = "record_consent"
    /\ Len(consents[ret.result.user_id]) >= 2
    /\ \E v \in DOMAIN consents : v # ret.result.user_id

(* C10: the access log is append-only: it never gets shorter,
   log_data_access and secure_biometric_login add exactly one entry at the
   end, and an existing entry changes only in its user id, only in
   erase_user_data of that user, and only to the placeholder. *)
C10_AccessLogAppendOnly ==
    [][/\ Len(access_logs') >= Len(access_logs)
       /\ ret'.op = "log_data_access" => access_logs' = Append(access_logs, ret'.result)
       /\ ret'.op = "secure_biometric_login" =>
            /\ Len(access_logs') = Len(access_logs) + 1
            /\ access_logs'[Len(access_logs')].user_id = ret'.user_id
       /\ ret'.op \notin {"log_data_access", "secure_biometric_login"} =>
            Len(access_logs') = Len(access_logs)
       /\ \A i \in 1..Len(access_logs) :
            LET a == access_logs[i]
                b == access_logs'[i]
            IN  /\ b = [a EXCEPT !.user_id = b.user_id]
                /\ b.user_id # a.user_id =>
                      /\ ret'.op = "erase_user_data"
                      /\ ret'.user_id = a.user_id
                      /\ b.user_id = "DELETED_USER"
      ]_vars

\* an erase has anonymized an entry and left another user's entry in the log
C10_Witness ==
    /\ ret.op = "erase_user_data"
    /\ \E i, j \in 1..Len(access_logs) :
          /\ access_logs[i].user_id = "DELETED_USER"
          /\ access_logs[j].user_id \in UserIds

---------------------------------------------------------------------------
(* Properties of the vaults *)

(* C16: decrypt(encrypt(x, associated_data)) under the same vault key returns
   exactly x, for every plaintext and every associated data value, none and
   empty included. *)
C16_VaultRoundTrip ==
    /\ \A key \in Keys, x \in Plaintexts, ad \in AdInputs, iv \in Ivs :
          Decrypt(key, Encrypt(key, iv, x, ad)) = [ok |-> TRUE, plaintext |-> x]
    /\ (ret.op = "decrypt" /\ ret.altered = "none" /\ ret.key = ret.encrypted_with)
          => (ret.ok /\ ret.result = ret.plaintext)

\* a blob encrypted with associated data was decrypted, unaltered, by its vault
C16_Witness ==
    /\ ret.op = "decrypt"
    /\ ret.altered = "none"
    /\ ret.key = ret.encrypted_with
    /\ ret.associated_data = <<"OTHER_PURPOSE">>
    /\ ret.ok
    /\ ret.result = <<"x1">>

(* C17: for every blob encrypt produced, decrypt of the blob with its
   ciphertext bytes or its tag bytes changed ends in the authentication
   error; and whatever was changed and whichever key is used, decrypt never
   returns a plaintext other than the one that was encrypted. *)
C17_DecryptAllOrNothing ==
    ret.op = "decrypt" =>
        /\ ret.altered \in {"ciphertext", "tag"} => (~ret.ok /\ ret.result = <<"InvalidTag">>)
        /\ ret.ok => ret.result = ret.plaintext

\* the vault that made the blob refused it with its ciphertext changed
C17_Witness ==
    /\ ret.op = "decrypt"
    /\ ret.altered = "ciphertext"
    /\ ret.key = ret.encrypted_with
    /\ ~ret.ok
    /\ ret.result = <<"InvalidTag">>

(* C18: decrypt_biometric_template accepts only blobs that were encrypted
   with the biometric-template associated data: a blob the biometric vault
   itself encrypted with other or no associated data is rejected. *)
C18_TemplateBlobBoundToPurpose ==
    (/\ ret.op = "decrypt_biometric_template"
     /\ ret.encrypted_with = BioKey
     /\ ret.altered = "none"
     /\ ret.associated_data # TemplateAD)
        => ~ret.ok

(* C11: erase_user_data(user) followed by get_user_data_export(user) gives
   empty consents and the access-log entries the user had, in anonymized form,
   and the erase leaves the number of access-log entries of the ledger as it
   was. *)
C11_ExportAfterErase ==
    \A user_id \in UserIds, reason \in Reasons :
        LET erased == EraseUserData(consents, access_logs, now, user_id, reason)
            export == GetUserDataExport(erased.consents, erased.access_logs, now, user_id)
        IN  /\ export.consents = <<>>
            /\ Len(erased.access_logs) = Len(access_logs)
            /\ Len(export.access_logs) = Len(SelectLogs(access_logs, user_id))
            /\ \A i \in 1..Len(export.access_logs) :
                  "user_id" \notin DOMAIN export.access_logs[i]

(* C29: erase_user_data(u) changes nothing of another user: the consent
   history and the check_consent results of every other user are as before,
   and every access-log entry that does not carry u as its user id is as
   before, in its user id and in all other fields. *)
C29_EraseAffectsOnlyThatUser ==
    [][ret'.op = "erase_user_data" =>
          LET u == ret'.user_id
          IN  /\ \A v \in LedgerUserIds \ {u} :
                    /\ (v \in DOMAIN consents') = (v \in DOMAIN consents)
                    /\ History(consents', v) = History(consents, v)
                    /\ \A purpose \in Purposes :
                          CheckConsent(consents', v, purpose) = CheckConsent(consents, v, purpose)
              /\ Len(access_logs') = Len(access_logs)
              /\ \A i \in 1..Len(access_logs) :
                    access_logs[i].user_id # u => access_logs'[i] = access_logs[i]
              /\ u = "DELETED_USER" => access_logs' = access_logs]_vars

\* an erase has anonymized an entry of its user while another user has a
\* consent on record and an entry in the log
C29_Witness ==
    /\ ret.op = "erase_user_data"
    /\ \E i \in 1..Len(access_logs) : access_logs[i].user_id = "DELETED_USER"
    /\ \E v \in UserIds \ {ret.user_id} :
          /\ v \in DOMAIN consents
          /\ \E i \in 1..Len(access_logs) : access_logs[i].user_id = v

(* C12: a registration with consent false ends in the consent-required error
   (ValueError) and changes nothing: no consent record, no access-log entry,
   no profile in the user registry, and no template in what it returns; in
   secure_user_registration and in register_user_biometrics. *)
C12_NoConsentNoEffect ==
    [][(/\ ret'.op \in {"secure_user_registration", "register_user_biometrics"}
        /\ ~ret'.consent_given)
          => /\ ~ret'.ok
             /\ ret'.result = "ValueError"
             /\ consents' = consents
             /\ access_logs' = access_logs
             /\ user_registry' = user_registry
             /\ \A u \in UserIds, sample \in Samples, salt \in FreshRandomness, iv \in Ivs :
                   /\ "result" \notin DOMAIN SecureUserRegistration(consents, now, u, sample,
                                                 sample, FALSE, salt, salt, iv, iv)
                   /\ "result" \notin DOMAIN RegisterUserBiometrics(user_registry, u, sample,
                                                 sample, FALSE)
      ]_vars

\* a registration without consent was refused on a ledger that holds records
C12_Witness ==
    /\ ret.op = "secure_user_registration"
    /\ ~ret.consent_given
    /\ ret.result = "ValueError"
    /\ consents # NoStore

\* the entry secure_biometric_login writes for a user
LoginEntry(user_id) ==
    LogDataAccess(access_logs, now, user_id, "CARL_AUTH_SYSTEM", "READ",
                  "biometric_template", "authentication",
                  "Contract (GDPR Art. 6(1)(b))").result

(* C13: every secure_biometric_login appends its access-log entry whatever
   the decryption and the comparison give: a login that returns a result and
   a login that fails at decryption both leave exactly their own entry at the
   end of the log; no login outcome exists without the entry. *)
C13_LoginLogsFirst ==
    [][ret'.op = "secure_biometric_login" =>
            access_logs' = Append(access_logs, LoginEntry(ret'.user_id))]_vars

\* a login failed at decryption and its entry is the last of the log
C13_Witness ==
    /\ ret.op = "secure_biometric_login"
    /\ ~ret.ok
    /\ ret.result = "InvalidTag"
    /\ Len(access_logs) >= 2
    /\ access_logs[Len(access_logs)].user_id = ret.user_id
    /\ access_logs[Len(access_logs)].accessed_by = "CARL_AUTH_SYSTEM"

\* what AES256Encryption.decrypt raises on a blob it does not accept
DecryptionErrors == {"InvalidTag", "binascii.Error"}

(* C27: secure_biometric_login on a stored blob whose ciphertext, nonce, tag
   or associated data was altered ends in a decryption error and returns
   neither true nor false; the access-log entry the attempt appended stays in
   the ledger, after the entries that were there. *)
C27_AlteredBlobFailsLogin ==
    [][(ret'.op = "secure_biometric_login" /\ ret'.altered) =>
          /\ ~ret'.ok
          /\ ret'.result \in DecryptionErrors
          /\ access_logs' = Append(access_logs, LoginEntry(ret'.user_id))]_vars

\* a login on an altered blob of a registration has failed at the tag check,
\* and its entry is the last of the log
C27_Witness ==
    /\ ret.op = "secure_biometric_login"
    /\ ret.altered
    /\ ret.result = "InvalidTag"
    /\ access_logs # <<>>
    /\ access_logs[Len(access_logs)] = LoginEntry(ret.user_id)

(* C14: for the blobs a registration of voice sample A and face sample F
   returns, secure_biometric_login(user, x, blob) returns true when x is the
   registered sample and false for every other x. *)
C14_LoginTrueExactlyForRegisteredSample ==
    \A user_id \in UserIds, A \in Samples, F \in Samples, x \in Samples,
       salt \in FreshRandomness, voice_iv \in Ivs, face_iv \in Ivs :
        LET reg == SecureUserRegistration(consents, now, user_id, A, F, TRUE,
                                          salt, salt, voice_iv, face_iv).result
            voice == SecureBiometricLogin(access_logs, now, user_id, x, reg.voice_template)
            face == SecureBiometricLogin(access_logs, now, user_id, x, reg.face_template)
        IN  /\ voice.ok /\ voice.result = (x = A)
            /\ face.ok /\ face.result = (x = F)

\* a registered user's login with a blob that decrypts was answered false
C14_Witness ==
    /\ ret.op = "secure_biometric_login"
    /\ ret.ok
    /\ ret.result = FALSE
    /\ ret.user_id \in DOMAIN consents

\* the bytes or the string is the raw sample, plain or in base64
IsRaw(bytes, sample) == bytes \in {sample, B64Encode(sample)}

\* a template holds the raw sample in its hash or in its salt
TemplateHoldsRaw(template, sample) ==
    \/ template.hash = Hex(sample)
    \/ IsRaw(template.salt, sample)

\* a blob holds the raw sample in one of its fields
BlobHoldsRaw(blob, sample) ==
    \E f \in DOMAIN blob : IsRaw(blob[f], sample) \/ (IsB64(blob[f]) /\ IsRaw(B64Decode(blob[f]), sample))

\* the blob decrypts under the biometric vault to a template of the sample
\* that holds its digest and not the sample
IsTemplateBlobOf(blob, sample) ==
    LET d == DecryptBiometricTemplate(blob)
    IN  /\ d.ok
        /\ d.template.hash = Sha256Hex(B64Decode(d.template.salt) \o sample)
        /\ ~TemplateHoldsRaw(d.template, sample)
        /\ ~BlobHoldsRaw(blob, sample)
        /\ ~IsRaw(Decrypt(BioKey, blob).plaintext, sample)

(* C15: a successful registration returns, for voice and for face, a blob
   that decrypts under the same vault to a template whose digest is
   H(salt || sample) for the template's own salt; neither the template nor
   the registration result (the user id, the two blobs, two constants and a
   time) holds the raw sample bytes. *)
C15_RegistrationReturnsTemplateBlobs ==
    \A user_id \in UserIds, A \in Samples, F \in Samples,
       salt \in FreshRandomness, voice_iv \in Ivs, face_iv \in Ivs :
        LET reg == SecureUserRegistration(consents, now, user_id, A, F, TRUE,
                                          salt, salt, voice_iv, face_iv)
        IN  /\ reg.ok
            /\ IsTemplateBlobOf(reg.result.voice_template, A)
            /\ IsTemplateBlobOf(reg.result.face_template, F)
            /\ DOMAIN reg.result = {"user_id", "voice_template", "face_template",
                                     "gdpr_compliant", "encryption", "registered_at"}

\* a registration with consent has succeeded
C15_Witness ==
    /\ ret.op = "secure_user_registration"
    /\ ret.ok
    /\ ret.result = "registered"
    /\ ret.user_id \in DOMAIN consents

---------------------------------------------------------------------------
(* Properties of the engine's registry next to the ledger *)

(* C21: after erase_user_data(user) the user registry holds no voice or face
   template of that user, and check_usage_permission for that user returns
   false for every modality. *)
C21_EraseRemovesTemplatesAndRights ==
    ret.op = "erase_user_data" =>
        /\ \A content_creator_id \in CreatorIds, usage_type \in UsageTypes :
              ~CheckUsagePermission(user_registry, content_creator_id, ret.user_id,
                                    usage_type).ok
        /\ ret.user_id \in DOMAIN user_registry =>
              /\ user_registry[ret.user_id].voice_signature = NoneHex
              /\ user_registry[ret.user_id].face_template = NoneHex

\* a modality is supplied when its sample is a non-empty capture; the engine
\* treats empty bytes like an omitted sample
Supplied(sample) == sample \in Samples

(* C22: after register_user_biometrics with consent true, the profile stored
   under user_id is the one returned; it has consent_given true, for each
   supplied modality the sha256 of its sample as signature and none for an
   omitted one, and content_rights true exactly for the supplied
   modalities. *)
C22_RegisteredProfile ==
    (ret.op = "register_user_biometrics" /\ ret.consent_given) =>
        /\ ret.ok
        /\ ret.user_id \in DOMAIN user_registry
        /\ user_registry[ret.user_id] = ret.result
        /\ ret.result.user_id = ret.user_id
        /\ ret.result.consent_given = TRUE
        /\ IF Supplied(ret.voice_sample)
           THEN ret.result.voice_signature = Sha256Hex(ret.voice_sample)
           ELSE ret.result.voice_signature = NoneHex
        /\ IF Supplied(ret.face_image)
           THEN ret.result.face_template = Sha256Hex(ret.face_image)
           ELSE ret.result.face_template = NoneHex
        /\ ret.result.content_rights =
              [voice |-> Supplied(ret.voice_sample), face |-> Supplied(ret.face_image)]

\* a registration with a voice sample and no face image has been stored over
\* an earlier profile of the other user
C22_Witness ==
    /\ ret.op = "register_user_biometrics"
    /\ ret.consent_given
    /\ Supplied(ret.voice_sample)
    /\ ret.face_image = None
    /\ DOMAIN user_registry = UserIds
    /\ user_registry[ret.user_id].content_rights = [voice |-> TRUE, face |-> FALSE]

---------------------------------------------------------------------------
(* Properties of the ledger under concurrent calls *)

(* C24: when concurrent record_consent calls have all returned, the consent
   history of every user holds one record per call made for that user,
   whatever the interleaving, also when the calls raced to create the user's
   first record. *)
C24_NoConsentLostUnderConcurrency ==
    (\A t \in Threads : conc.threads[t].pc = "done") =>
        \A user_id \in UserIds :
            Len(History(consents, user_id))
                = Cardinality({t \in Threads : conc.threads[t].user_id = user_id})

(* C30: get_user_data_export(u) returns only data of user u.  Every consent
   in it was recorded for u, and an access-log entry comes into the export of
   a user id only by being logged with that user id; this holds for every
   user id, the placeholder that erase writes into anonymized entries
   included. *)
C30_ExportOnlyOwnData ==
    [][\A u \in LedgerUserIds :
          LET before == GetUserDataExport(consents, access_logs, now, u)
              after == GetUserDataExport(consents', access_logs', now', u)
          IN  /\ Len(after.consents) = Len(History(consents', u))
              /\ \A i \in 1..Len(History(consents', u)) : History(consents', u)[i].user_id = u
              /\ Len(after.access_logs) > Len(before.access_logs) =>
                    /\ Len(access_logs') = Len(access_logs) + 1
                    /\ SubSeq(access_logs', 1, Len(access_logs)) = access_logs
                    /\ access_logs'[Len(access_logs')].user_id = u]_vars

\* check_usage_permission(creator, user_id, usage_type) on a registry
Permitted(registry, user_id, usage_type) ==
    \A content_creator_id \in CreatorIds :
        CheckUsagePermission(registry, content_creator_id, user_id, usage_type).ok

(* C32: check_usage_permission returns true exactly when the user is in the
   registry and a sample for the modality was supplied in the user's most
   recent successful registration.  No user is permitted anything before a
   registration; a successful registration sets the user's permissions from
   the samples of that call alone, replacing the earlier profile, and leaves
   the other users' permissions; a refused registration and a permission
   check change no permission.  A check that returns false carries an error
   detail. *)
C32_PermissionFollowsLastRegistration ==
    /\ \A user_id \in UserIds \ DOMAIN user_registry, usage_type \in UsageTypes :
          ~Permitted(user_registry, user_id, usage_type)
    /\ [](ret.op = "register_user_biometrics" /\ ret.ok =>
             /\ user_registry[ret.user_id] = ret.result
             /\ \A usage_type \in UsageTypes :
                   Permitted(user_registry, ret.user_id, usage_type)
                      = \/ usage_type = "voice" /\ Supplied(ret.voice_sample)
                        \/ usage_type = "face" /\ Supplied(ret.face_image))
    /\ [][\A user_id \in UserIds, usage_type \in UsageTypes :
             ~(ret'.op = "register_user_biometrics" /\ ret'.ok /\ ret'.user_id = user_id)
                => Permitted(user_registry', user_id, usage_type)
                      = Permitted(user_registry, user_id, usage_type)]_vars
    /\ [](ret.op = "check_usage_permission" =>
             /\ ret.ok = Permitted(user_registry, ret.user_id, ret.usage_type)
             /\ ~ret.ok => DOMAIN ret.result = {"error"}
             /\ ret.user_id \notin DOMAIN user_registry =>
                   (~ret.ok /\ ret.result.error = "User not registered"))

\* a check has refused the voice of a user whose profile in the registry
\* grants the face only
C32_Witness ==
    /\ ret.op = "check_usage_permission"
    /\ ~ret.ok
    /\ ret.usage_type = "voice"
    /\ ret.user_id \in DOMAIN user_registry
    /\ user_registry[ret.user_id].content_rights = [voice |-> FALSE, face |-> TRUE]

(* C34: detect_deepfake_audio reports the audio as synthetic exactly when a
   claimed user id is given, that user is registered and the fingerprint of
   the audio differs from the user's stored voice signature; with no claimed
   user or an unregistered one it reports not synthetic.  The confidence is
   within [0, 1] (here in hundredths) and the call leaves the user registry
   as it is. *)
C34_DeepfakeAudioVerdict ==
    /\ [](ret.op = "detect_deepfake_audio" =>
             LET given == ret.claimed_user_id \notin {NoUserId, ""}
                 registered == ret.claimed_user_id \in DOMAIN user_registry
             IN  /\ ret.is_synthetic
                       = /\ given
                         /\ registered
                         /\ Sha256Hex(ret.audio_data)
                               # user_registry[ret.claimed_user_id].voice_signature
                 /\ (~given \/ ~registered) => ~ret.is_synthetic
                 /\ ret.confidence \in 0..100)
    /\ [][ret'.op = "detect_deepfake_audio" => user_registry' = user_registry]_vars

\* the audio of a registered voice was presented under the id of the other
\* registered user and reported as synthetic
C34_Witness ==
    /\ ret.op = "detect_deepfake_audio"
    /\ ret.is_synthetic
    /\ ret.claimed_user_id \in DOMAIN user_registry
    /\ \E v \in DOMAIN user_registry \ {ret.claimed_user_id} :
          user_registry[v].voice_signature = Sha256Hex(ret.audio_data)

\* two characters are the same letter, whatever their case
SameLetter(a, b) ==
    \/ a = b
    \/ \E i \in 1..Len(LowerLetters) :
          {a, b} = {LowerLetters[i], UpperLetters[i]}

\* the text has the pattern in it, case ignored
HasPattern(text, pattern) ==
    \E i \in 0..(Len(text) - Len(pattern)) :
        \A j \in 1..Len(pattern) : SameLetter(text[i + j], pattern[j])

(* C35: for text content without media, analyze_social_content returns the
   flag REJTETT_REKLAM and the threat level SUSPICIOUS exactly when the
   content has one of the hidden-advertisement patterns in it, case ignored,
   and otherwise no flag and the threat level SAFE; either way is_synthetic is
   false and details.gdpr_compliant is true. *)
C35_TextAnalysisFlagsHiddenAdvertisement ==
    (ret.op = "analyze_social_content" /\ ret.result.content_type = "text"
        /\ ~Truthy(ret.media_data)) =>
        LET advertisement ==
                \E k \in 1..Len(SuspiciousPatterns) :
                    HasPattern(ret.content, SuspiciousPatterns[k])
        IN  /\ advertisement =>
                  (ret.result.flags = <<"REJTETT_REKLAM">>
                   /\ ret.result.threat_level = "suspicious")
            /\ ~advertisement =>
                  (ret.result.flags = <<>> /\ ret.result.threat_level = "safe")
            /\ ret.result.is_synthetic = FALSE
            /\ ret.result.details.gdpr_compliant = TRUE

\* a text with a pattern in capitals has been analysed and flagged
C35_Witness ==
    /\ ret.op = "analyze_social_content"
    /\ ret.result.content_type = "text"
    /\ ret.media_data = None
    /\ ret.content = TextUpper(SuspiciousPatterns[1])
    /\ ret.result.flags = <<"REJTETT_REKLAM">>

=========================================================================
